---- MODULE Spec2Model ----
(***************************************************************************)
(* Model of the CP-SAT translation layer of the scheduler solver service:  *)
(* solver.solve_request and its helpers (src/solver/src/solver/solver.py), *)
(* over the request/response records of src/solver/src/solver/models.py.   *)
(*                                                                         *)
(* One behaviour is one call of solve_request: the request is fixed by     *)
(* Init, and the actions follow the function body: _collect_bounds, the    *)
(* variable-creation loop, the constraint loop, _build_objective, and the  *)
(* call of the solver followed by the construction of the response.        *)
(* An exception raised anywhere ends the call with the ERROR response of   *)
(* the except clause.                                                      *)
(*                                                                         *)
(* Optional fields (Python None) are sequences: <<>> is None and <<v>> is  *)
(* the value v.                                                            *)
(***************************************************************************)
EXTENDS Integers, Sequences, FiniteSets, TLC

None == <<>>

Some(v) == <<v>>

IsNone(o) == o = <<>>

Val(o) == o[1]

Max2(a, b) == IF a >= b THEN a ELSE b

\* dict[key] = value
Put(m, k, v) == [n \in DOMAIN m \cup {k} |-> IF n = k THEN v ELSE m[n]]

EmptyMap == [n \in {} |-> 0]

\* All sequences over S of a length in lo..hi.
SeqsBetween(S, lo, hi) == UNION {[1..n -> S] : n \in lo..hi}

(***************************************************************************)
(* Records of models.py.                                                   *)
(***************************************************************************)
Variable(t, n, mn, mx, st, en, sz, pv) ==
    [type |-> t, name |-> n, min |-> mn, max |-> mx,
     start |-> st, end |-> en, size |-> sz, presenceVar |-> pv]

BoolVar(n) == Variable("bool", n, None, None, None, None, None, None)

IntVar(n, mn, mx) == Variable("int", n, mn, mx, None, None, None, None)

IntervalVar(n, st, en, sz, pv) == Variable("interval", n, None, None, st, en, sz, pv)

Term(v, c) == [var |-> v, coeff |-> c]

Constraint(t, ts, o, r, p, vs, ivs, i, th, cid) ==
    [type |-> t, terms |-> ts, op |-> o, rhs |-> r, penalty |-> p,
     vars |-> vs, intervals |-> ivs, if_ |-> i, then |-> th, id |-> cid]

Linear(ts, o, r) ==
    Constraint("linear", Some(ts), Some(o), Some(r), None, None, None, None, None, None)

SoftLinear(ts, o, r, p, cid) ==
    Constraint("soft_linear", Some(ts), Some(o), Some(r), Some(p), None, None, None, None, cid)

Objective(s, ts) == [sense |-> s, terms |-> ts]

SolverRequest(vs, cs, obj) == [variables |-> vs, constraints |-> cs, objective |-> obj]

SoftConstraintViolation(cid, amount, target, actual) ==
    [constraintId |-> cid, violationAmount |-> amount,
     targetValue |-> target, actualValue |-> actual]

SolverResponse(st, vals, stats, err, info, soft) ==
    [status |-> st, values |-> vals, statistics |-> stats, error |-> err,
     solutionInfo |-> info, softViolations |-> soft]

\* The fields a constraint variant reads; every other field belongs to
\* another variant (id is read by soft_linear only).
OwnFields(t) ==
    CASE t = "linear" -> {"terms", "op", "rhs"}
      [] t = "soft_linear" -> {"terms", "op", "rhs", "penalty", "id"}
      [] t = "implication" -> {"if_", "then"}
      [] t = "no_overlap" -> {"intervals"}
      [] OTHER -> {"vars"}

VariantFields == {"terms", "op", "rhs", "penalty", "vars", "intervals", "if_", "then"}

(***************************************************************************)
(* Pure helpers of solver.py.  A helper that can raise returns a record    *)
(* whose err field is None or the message of the exception.                *)
(***************************************************************************)
_VariableBounds(lo, hi) == [lower |-> lo, upper |-> hi]

\* str(KeyError(name)) of a failed dict lookup
KeyError(name) == "'" \o name \o "'"

RECURSIVE CollectBoundsFrom(_, _, _)
CollectBoundsFrom(variables, k, bounds) ==
    IF k > Len(variables) THEN [err |-> None, bounds |-> bounds]
    ELSE LET var == variables[k] IN
         CASE var.type = "bool" ->
                CollectBoundsFrom(variables, k + 1,
                                  Put(bounds, var.name, _VariableBounds(0, 1)))
           [] var.type = "int" ->
                IF IsNone(var.min) \/ IsNone(var.max)
                THEN [err |-> Some("Int variable " \o var.name \o " requires min and max"),
                      bounds |-> bounds]
                ELSE CollectBoundsFrom(variables, k + 1,
                                       Put(bounds, var.name,
                                           _VariableBounds(Val(var.min), Val(var.max))))
           [] OTHER -> CollectBoundsFrom(variables, k + 1, bounds)

_collect_bounds(variables) == CollectBoundsFrom(variables, 1, EmptyMap)

_term_range(term, b) ==
    IF term.coeff >= 0
    THEN <<term.coeff * b.lower, term.coeff * b.upper>>
    ELSE <<term.coeff * b.upper, term.coeff * b.lower>>

RECURSIVE ExpressionRangeFrom(_, _, _, _, _)
ExpressionRangeFrom(terms, bounds, k, min_expr, max_expr) ==
    IF k > Len(terms) THEN [err |-> None, min |-> min_expr, max |-> max_expr]
    ELSE IF terms[k].var \notin DOMAIN bounds
         THEN [err |-> Some("Unknown variable " \o terms[k].var),
               min |-> min_expr, max |-> max_expr]
         ELSE LET r == _term_range(terms[k], bounds[terms[k].var]) IN
              ExpressionRangeFrom(terms, bounds, k + 1, min_expr + r[1], max_expr + r[2])

_expression_range(terms, bounds) == ExpressionRangeFrom(terms, bounds, 1, 0, 0)

(***************************************************************************)
(* Linear expressions over the handles of the CP model.  A handle is the   *)
(* index of an integer variable in model_vars; an expression is a sequence *)
(* of weighted handles.                                                    *)
(***************************************************************************)
Weighted(h, c) == [h |-> h, c |-> c]

Negated(expr) == [k \in 1..Len(expr) |-> Weighted(expr[k].h, -expr[k].c)]

\* sum(vars_map[t.var] * t.coeff for t in terms): the first unknown name
\* raises KeyError.
TermsExpr(terms, vars_map) ==
    LET missing == {k \in 1..Len(terms) : terms[k].var \notin DOMAIN vars_map} IN
    IF missing /= {}
    THEN [err |-> Some(KeyError(terms[CHOOSE k \in missing : \A j \in missing : k <= j].var)),
          expr |-> <<>>]
    ELSE [err |-> None,
          expr |-> [k \in 1..Len(terms) |-> Weighted(vars_map[terms[k].var], terms[k].coeff)]]

\* [vars_map[v] for v in names]
Lookup(names, map) ==
    LET missing == {k \in 1..Len(names) : names[k] \notin DOMAIN map} IN
    IF missing /= {}
    THEN [err |-> Some(KeyError(names[CHOOSE k \in missing : \A j \in missing : k <= j])),
          handles |-> <<>>]
    ELSE [err |-> None, handles |-> [k \in 1..Len(names) |-> map[names[k]]]]

\* An integer variable of the CP model: NewBoolVar, NewIntVar.
ModelVar(name, lb, ub) == [name |-> name, lb |-> lb, ub |-> ub]

\* The library takes an integer variable as a literal only if its domain
\* lies within 0..1; otherwise the call raises TypeError.
IsBooleanVar(model_vars, h) ==
    /\ model_vars[h].lb <= model_vars[h].ub
    /\ model_vars[h].lb >= 0
    /\ model_vars[h].ub <= 1

NotBooleanError(model_vars, handles) ==
    LET bad == {k \in 1..Len(handles) : ~IsBooleanVar(model_vars, handles[k])} IN
    IF bad = {} THEN None
    ELSE Some("TypeError: "
              \o model_vars[handles[CHOOSE k \in bad : \A j \in bad : k <= j]].name
              \o " is not a boolean variable")

\* A constraint of the CP model.
Ct(kind, expr, op, rhs, lits, ivs) ==
    [kind |-> kind, expr |-> expr, op |-> op, rhs |-> rhs, lits |-> lits, ivs |-> ivs]

LinCt(expr, op, rhs) == Ct("lin", expr, op, rhs, <<>>, <<>>)

LitCt(kind, lits) == Ct(kind, <<>>, "", 0, lits, <<>>)

\* The compile state the constraint handlers read and extend.
Compile(mv, mc, pt, tc, sl) ==
    [model_vars |-> mv, model_cts |-> mc, penalty_terms |-> pt,
     tracked_constraints |-> tc, soft_log |-> sl]

Raise(msg, cs) == [err |-> Some(msg), cs |-> cs]

Ok(cs) == [err |-> None, cs |-> cs]

AddCt(cs, ct) == [cs EXCEPT !.model_cts = Append(@, ct)]

(***************************************************************************)
(* The constraint handlers of solver.py.                                   *)
(***************************************************************************)
\* Falsy that lets the empty list through.
FalsyNoneOnly(o) == IsNone(o)

\* Python's "not x" of an optional list: None or the empty list.
Falsy(o) == IsNone(o) \/ Val(o) = <<>>

_add_linear_constraint(cs, constraint, vars_map) ==
    IF Falsy(constraint.terms) \/ IsNone(constraint.op) \/ IsNone(constraint.rhs)
    THEN Raise("Linear constraint requires terms, op, and rhs", cs)
    ELSE LET e == TermsExpr(Val(constraint.terms), vars_map) IN
         IF ~IsNone(e.err) THEN Raise(Val(e.err), cs)
         ELSE Ok(AddCt(cs, LinCt(e.expr, Val(constraint.op), Val(constraint.rhs))))

_TrackedSoftConstraint(constraint_id, violation_var, target_value, comparator, terms) ==
    [constraint_id |-> constraint_id, violation_var |-> violation_var,
     target_value |-> target_value, comparator |-> comparator, terms |-> terms]

\* constraint.id or f"soft_{constraint_index}": None and the empty string
\* are both falsy.
ConstraintId(constraint, constraint_index) ==
    IF IsNone(constraint.id) \/ Val(constraint.id) = ""
    THEN "soft_" \o ToString(constraint_index)
    ELSE Val(constraint.id)

\* MaxViolation without the clamp at 0.
MaxViolationUnclamped(op, rhs, min_expr, max_expr) ==
    IF op = "<=" THEN max_expr - rhs ELSE rhs - min_expr

\* max_violation of the two supported comparators
MaxViolation(op, rhs, min_expr, max_expr) ==
    IF op = "<=" THEN Max2(0, max_expr - rhs) ELSE Max2(0, rhs - min_expr)

\* The bounds of the violation variable: NewIntVar(0, max_violation, ...)
ViolationVar(constraint_id, max_violation) ==
    ModelVar("violation_" \o constraint_id, 0, max_violation)

\* RelaxedCt with the violation on the side of the expression under <=.
RelaxedCtTightened(expr, op, rhs, violation) ==
    LinCt(Append(expr, Weighted(violation, 1)), op, rhs)

\* The relaxed constraint: expr <= rhs + violation, or expr + violation >= rhs.
RelaxedCt(expr, op, rhs, violation) ==
    IF op = "<="
    THEN LinCt(Append(expr, Weighted(violation, -1)), "<=", rhs)
    ELSE LinCt(Append(expr, Weighted(violation, 1)), ">=", rhs)

\* Penalized with >= for >.
PenalizedAtZero(max_violation) == max_violation >= 0

\* if max_violation > 0: the penalty term and the tracking are added
Penalized(max_violation) == max_violation > 0

\* if constraint.id is not None: the constraint is tracked
IsTracked(constraint) == ~IsNone(constraint.id)

\* cidx is the position of the constraint in request.constraints; soft_log
\* keeps the locals of each call (min_expr, max_expr, max_violation and the
\* violation variable) for observation.
_add_soft_linear_constraint(cs, constraint, vars_map, bounds, constraint_index, cidx) ==
    IF \/ Falsy(constraint.terms) \/ IsNone(constraint.op)
       \/ IsNone(constraint.rhs) \/ IsNone(constraint.penalty)
    THEN Raise("Soft linear constraint requires terms, op, rhs, and penalty", cs)
    ELSE LET terms == Val(constraint.terms)
             op == Val(constraint.op)
             rhs == Val(constraint.rhs)
             range == _expression_range(terms, bounds)
             e == TermsExpr(terms, vars_map)
             constraint_id == ConstraintId(constraint, constraint_index)
             max_violation == MaxViolation(op, rhs, range.min, range.max)
             violation == Len(cs.model_vars) + 1
             added == [cs EXCEPT
                 !.model_vars = Append(@, ViolationVar(constraint_id, max_violation)),
                 !.model_cts = Append(@, RelaxedCt(e.expr, op, rhs, violation)),
                 !.soft_log = Append(@, [cidx |-> cidx, violation |-> violation,
                                         max_violation |-> max_violation,
                                         min_expr |-> range.min, max_expr |-> range.max])]
         IN
         IF ~IsNone(range.err) THEN Raise(Val(range.err), cs)
         ELSE IF ~IsNone(e.err) THEN Raise(Val(e.err), cs)
         ELSE IF op \notin {"<=", ">="}
         THEN Raise("Unsupported soft linear operator " \o op, cs)
         ELSE IF ~Penalized(max_violation) THEN Ok(added)
         ELSE Ok([added EXCEPT
                 !.penalty_terms = Append(@, Weighted(violation, Val(constraint.penalty))),
                 !.tracked_constraints =
                     IF IsTracked(constraint)
                     THEN Append(@, _TrackedSoftConstraint(constraint_id, violation,
                                                           rhs, op, terms))
                     ELSE @])

\* _add_exactly_one, _add_at_most_one, _add_bool_or, _add_bool_and
AddLiterals(cs, constraint, vars_map, kind, what) ==
    IF Falsy(constraint.vars) THEN Raise(what \o " constraint requires vars", cs)
    ELSE LET l == Lookup(Val(constraint.vars), vars_map) IN
         IF ~IsNone(l.err) THEN Raise(Val(l.err), cs)
         ELSE LET t == NotBooleanError(cs.model_vars, l.handles) IN
              IF ~IsNone(t) THEN Raise(Val(t), cs)
              ELSE Ok(AddCt(cs, LitCt(kind, l.handles)))

_add_exactly_one(cs, constraint, vars_map) ==
    AddLiterals(cs, constraint, vars_map, "exactly_one", "Exactly one")

_add_at_most_one(cs, constraint, vars_map) ==
    AddLiterals(cs, constraint, vars_map, "at_most_one", "At most one")

_add_bool_or(cs, constraint, vars_map) ==
    AddLiterals(cs, constraint, vars_map, "bool_or", "Bool OR")

_add_bool_and(cs, constraint, vars_map) ==
    AddLiterals(cs, constraint, vars_map, "bool_and", "Bool AND")

_add_implication(cs, constraint, vars_map) ==
    IF IsNone(constraint.if_) \/ IsNone(constraint.then)
    THEN Raise("Implication constraint requires if/then", cs)
    ELSE LET l == Lookup(<<Val(constraint.if_), Val(constraint.then)>>, vars_map) IN
         IF ~IsNone(l.err) THEN Raise(Val(l.err), cs)
         ELSE LET t == NotBooleanError(cs.model_vars, l.handles) IN
              IF ~IsNone(t) THEN Raise(Val(t), cs)
              ELSE Ok(AddCt(cs, LitCt("implication", l.handles)))

_add_no_overlap(cs, constraint, intervals_map) ==
    IF Falsy(constraint.intervals) THEN Raise("NoOverlap constraint requires intervals", cs)
    ELSE LET l == Lookup(Val(constraint.intervals), intervals_map) IN
         IF ~IsNone(l.err) THEN Raise(Val(l.err), cs)
         ELSE Ok(AddCt(cs, Ct("no_overlap", <<>>, "", 0, <<>>, l.handles)))

\* The match statement of the constraint loop.
Dispatch(cs, constraint, vars_map, intervals_map, bounds, constraint_index, cidx) ==
    CASE constraint.type = "linear" -> _add_linear_constraint(cs, constraint, vars_map)
      [] constraint.type = "soft_linear" ->
            _add_soft_linear_constraint(cs, constraint, vars_map, bounds,
                                        constraint_index, cidx)
      [] constraint.type = "exactly_one" -> _add_exactly_one(cs, constraint, vars_map)
      [] constraint.type = "at_most_one" -> _add_at_most_one(cs, constraint, vars_map)
      [] constraint.type = "implication" -> _add_implication(cs, constraint, vars_map)
      [] constraint.type = "bool_or" -> _add_bool_or(cs, constraint, vars_map)
      [] constraint.type = "bool_and" -> _add_bool_and(cs, constraint, vars_map)
      [] constraint.type = "no_overlap" -> _add_no_overlap(cs, constraint, intervals_map)

(***************************************************************************)
(* Variable creation: one iteration of the loop of solve_request.          *)
(***************************************************************************)
\* A fixed interval of the CP model; presence is the handle of its presence
\* literal, or 0 when the interval is always present.
Interval(start, end, size, presence) ==
    [start |-> start, end |-> end, size |-> size, presence |-> presence]

\* if var.presenceVar not in vars_map: raise
PresenceKnown(presenceVar, vars_map) == presenceVar \in DOMAIN vars_map

\* ms is [model_vars, vars_map, intervals_map].  The start and end of an
\* interval are constants of the model (NewConstant) and are kept in the
\* interval itself.  The presence literal is checked by the library as any
\* literal is.
CreateVariable(var, ms) ==
    CASE var.type = "bool" ->
           [err |-> None,
            ms |-> [ms EXCEPT !.model_vars = Append(@, ModelVar(var.name, 0, 1)),
                              !.vars_map = Put(@, var.name, Len(ms.model_vars) + 1)]]
      [] var.type = "int" ->
           IF IsNone(var.min) \/ IsNone(var.max)
           THEN [err |-> Some("Int variable " \o var.name \o " requires min and max"),
                 ms |-> ms]
           ELSE [err |-> None,
                 ms |-> [ms EXCEPT
                     !.model_vars = Append(@, ModelVar(var.name, Val(var.min), Val(var.max))),
                     !.vars_map = Put(@, var.name, Len(ms.model_vars) + 1)]]
      [] OTHER ->
           IF IsNone(var.start) \/ IsNone(var.end) \/ IsNone(var.size)
           THEN [err |-> Some("Interval variable " \o var.name
                              \o " requires start, end, and size"),
                 ms |-> ms]
           ELSE IF Val(var.end) - Val(var.start) /= Val(var.size)
           THEN [err |-> Some("Interval variable " \o var.name \o " inconsistent: end-start="
                              \o ToString(Val(var.end) - Val(var.start))
                              \o " != size=" \o ToString(Val(var.size))),
                 ms |-> ms]
           ELSE IF IsNone(var.presenceVar)
           THEN [err |-> None,
                 ms |-> [ms EXCEPT !.intervals_map =
                     Put(@, var.name,
                         Interval(Val(var.start), Val(var.end), Val(var.size), 0))]]
           ELSE IF ~PresenceKnown(Val(var.presenceVar), ms.vars_map)
           THEN [err |-> Some("Interval variable " \o var.name
                              \o " references unknown presenceVar " \o Val(var.presenceVar)),
                 ms |-> ms]
           ELSE LET presence == ms.vars_map[Val(var.presenceVar)]
                    t == NotBooleanError(ms.model_vars, <<presence>>)
                IN
                IF ~IsNone(t) THEN [err |-> t, ms |-> ms]
                ELSE [err |-> None,
                      ms |-> [ms EXCEPT !.intervals_map =
                          Put(@, var.name,
                              Interval(Val(var.start), Val(var.end), Val(var.size),
                                       presence))]]

(***************************************************************************)
(* _build_objective: what is sent to the solver (sense "none" when neither *)
(* Minimize nor Maximize is called) and the has_objective it returns.      *)
(***************************************************************************)
Sent(sense, expr, has) == [err |-> None, sense |-> sense, expr |-> expr, has_objective |-> has]

\* Combined with the penalties added under either sense.
CombinedAlwaysAdded(sense, obj_expr, penalty_expr) == obj_expr \o penalty_expr

\* obj_expr and penalty_expr both present
Combined(sense, obj_expr, penalty_expr) ==
    IF sense = "minimize" THEN obj_expr \o penalty_expr
    ELSE obj_expr \o Negated(penalty_expr)

\* only penalty_expr present, under an objective without terms
PenaltyOnly(sense, penalty_expr) ==
    IF sense = "minimize" THEN penalty_expr ELSE Negated(penalty_expr)

_build_objective(objective, vars_map, penalty_terms) ==
    IF ~IsNone(objective)
    THEN LET sense == Val(objective).sense
             e == TermsExpr(Val(objective).terms, vars_map)
         IN
         IF ~IsNone(e.err)
         THEN [err |-> e.err, sense |-> "none", expr |-> <<>>, has_objective |-> FALSE]
         ELSE IF penalty_terms /= <<>> /\ e.expr /= <<>>
         THEN Sent(sense, Combined(sense, e.expr, penalty_terms), TRUE)
         ELSE IF e.expr /= <<>> THEN Sent(sense, e.expr, TRUE)
         ELSE IF penalty_terms /= <<>>
         THEN Sent(sense, PenaltyOnly(sense, penalty_terms), TRUE)
         ELSE Sent("none", <<>>, FALSE)
    ELSE IF penalty_terms /= <<>> THEN Sent("minimize", penalty_terms, TRUE)
    ELSE Sent("none", <<>>, FALSE)

(***************************************************************************)
(* The solver, as far as solve_request relies on it: an assignment it      *)
(* returns gives every integer variable a value of its domain and          *)
(* satisfies every constraint of the model, and one returned as optimal    *)
(* has the best objective value among these.                               *)
(***************************************************************************)
RECURSIVE Eval(_, _)
Eval(expr, a) ==
    IF expr = <<>> THEN 0
    ELSE expr[1].c * a[expr[1].h] + Eval(Tail(expr), a)

Present(iv, a) == iv.presence = 0 \/ a[iv.presence] = 1

Sat(ct, a) ==
    CASE ct.kind = "lin" ->
           LET v == Eval(ct.expr, a) IN
           CASE ct.op = "<=" -> v <= ct.rhs
             [] ct.op = ">=" -> v >= ct.rhs
             [] OTHER -> v = ct.rhs
      [] ct.kind = "exactly_one" ->
           Cardinality({k \in 1..Len(ct.lits) : a[ct.lits[k]] = 1}) = 1
      [] ct.kind = "at_most_one" ->
           Cardinality({k \in 1..Len(ct.lits) : a[ct.lits[k]] = 1}) <= 1
      [] ct.kind = "implication" -> a[ct.lits[1]] = 1 => a[ct.lits[2]] = 1
      [] ct.kind = "bool_or" -> \E k \in 1..Len(ct.lits) : a[ct.lits[k]] = 1
      [] ct.kind = "bool_and" -> \A k \in 1..Len(ct.lits) : a[ct.lits[k]] = 1
      [] OTHER ->
           \A j, k \in 1..Len(ct.ivs) :
               (j < k /\ Present(ct.ivs[j], a) /\ Present(ct.ivs[k], a))
                   => ~(ct.ivs[j].start < ct.ivs[k].end /\ ct.ivs[k].start < ct.ivs[j].end)

RECURSIVE Assignments(_, _)
Assignments(model_vars, n) ==
    IF n = 0 THEN {<<>>}
    ELSE {Append(a, v) : a \in Assignments(model_vars, n - 1),
                         v \in model_vars[n].lb .. model_vars[n].ub}

Feasible(model_vars, model_cts) ==
    {a \in Assignments(model_vars, Len(model_vars)) :
        \A k \in 1..Len(model_cts) : Sat(model_cts[k], a)}

Optimal(a, feasible, sent) ==
    CASE sent.sense = "minimize" ->
           \A b \in feasible : Eval(sent.expr, a) <= Eval(sent.expr, b)
      [] sent.sense = "maximize" ->
           \A b \in feasible : Eval(sent.expr, a) >= Eval(sent.expr, b)
      [] OTHER -> TRUE

ValidModel(model_vars) == \A h \in 1..Len(model_vars) : model_vars[h].lb <= model_vars[h].ub

RawStatuses == {"optimal", "feasible", "infeasible", "model_invalid", "unknown", "other"}

\* The statuses the solver can answer with, and with which assignment
\* (<<>> when it returns none).  A model with a variable of empty domain is
\* answered as invalid; a valid one can run out of time ("unknown"), and
\* "other" stands for any status code outside the table of solve_request.
Answers(model_vars, model_cts, sent) ==
    LET feasible == Feasible(model_vars, model_cts) IN
    {<<"optimal", a>> : a \in {b \in feasible : Optimal(b, feasible, sent)}}
    \cup {<<"feasible", a>> : a \in feasible}
    \cup (IF ValidModel(model_vars) /\ feasible = {} THEN {<<"infeasible", <<>>>>} ELSE {})
    \cup (IF ValidModel(model_vars) THEN {<<"unknown", <<>>>>, <<"other", <<>>>>}
          ELSE {<<"model_invalid", <<>>>>})

\* solver.response_proto.solution_info
SolutionInfos == {"", "infeasible"}

(***************************************************************************)
(* The response of a solver call.                                          *)
(***************************************************************************)
\* StatusText without the TIMEOUT row of the table.
StatusTextNoTimeout(raw) ==
    CASE raw = "optimal" -> "OPTIMAL"
      [] raw = "feasible" -> "FEASIBLE"
      [] raw = "infeasible" -> "INFEASIBLE"
      [] OTHER -> "ERROR"

\* status_map.get(int(status), "ERROR")
StatusText(raw) ==
    CASE raw = "optimal" -> "OPTIMAL"
      [] raw = "feasible" -> "FEASIBLE"
      [] raw = "infeasible" -> "INFEASIBLE"
      [] raw = "model_invalid" -> "ERROR"
      [] raw = "unknown" -> "TIMEOUT"
      [] OTHER -> "ERROR"

\* status not in (OPTIMAL, FEASIBLE) returns early
IsSuccess(raw) == raw \in {"optimal", "feasible"}

\* ActualValue without the coefficients.
RECURSIVE ActualValueUnweighted(_, _, _)
ActualValueUnweighted(terms, a, vars_map) ==
    IF terms = <<>> THEN 0
    ELSE a[vars_map[terms[1].var]] + ActualValueUnweighted(Tail(terms), a, vars_map)

\* sum(solver.Value(vars_map[term.var]) * term.coeff for term in tracked.terms)
RECURSIVE ActualValue(_, _, _)
ActualValue(terms, a, vars_map) ==
    IF terms = <<>> THEN 0
    ELSE a[vars_map[terms[1].var]] * terms[1].coeff + ActualValue(Tail(terms), a, vars_map)

\* if violation_amount <= 0: continue
IsReported(violation_amount) == violation_amount > 0

RECURSIVE SoftViolations(_, _, _)
SoftViolations(tracked, a, vars_map) ==
    IF tracked = <<>> THEN <<>>
    ELSE LET violation_amount == a[tracked[1].violation_var]
             rest == SoftViolations(Tail(tracked), a, vars_map)
         IN
         IF ~IsReported(violation_amount) THEN rest
         ELSE <<SoftConstraintViolation(tracked[1].constraint_id, violation_amount,
                                        tracked[1].target_value,
                                        ActualValue(tracked[1].terms, a, vars_map))>>
              \o rest

\* The keys of the statistics dictionary.
Statistics(has_objective) ==
    {"solveTimeMs", "conflicts", "branches"}
    \cup (IF has_objective THEN {"objectiveValue", "bestObjectiveBound"} ELSE {})

ErrorResponse(msg) == SolverResponse("ERROR", None, None, Some(msg), None, None)

FailureResponse(raw, info) ==
    SolverResponse(StatusText(raw), None, None, None,
                   IF info = "" THEN None ELSE Some(info), None)

SuccessResponse(raw, a, vars_map, tracked, has_objective) ==
    LET soft_violations == SoftViolations(tracked, a, vars_map) IN
    SolverResponse(StatusText(raw),
                   Some([name \in DOMAIN vars_map |-> a[vars_map[name]]]),
                   Some(Statistics(has_objective)),
                   None, None,
                   IF soft_violations = <<>> THEN None ELSE Some(soft_violations))

(***************************************************************************)
(* The requests explored.  Scalar variables are named x and y, intervals   *)
(* i; a name is undeclared in a request that does not declare it.          *)
(***************************************************************************)
MaxVars == 2

MaxConstraints == 2

MaxTerms == 2

MaxForeign == 1

Senses == {"minimize", "maximize"}

\* Declarations: every kind of variable, integers with a missing bound,
\* with min > max and with the domain 0..1, intervals with and without a
\* presence variable, with end - start /= size and with a missing start.
VarChoices ==
    {BoolVar("x"), BoolVar("y")}
    \cup {IntVar("x", mn, mx) : mn \in {None, Some(-1), Some(0), Some(2)},
                                mx \in {None, Some(1)}}
    \cup {IntervalVar("i", Some(0), Some(en), Some(1), pv) :
            en \in {1, 2}, pv \in {None, Some("x"), Some("y")}}
    \cup {IntervalVar("i", None, Some(1), Some(1), None)}

DeclarationRequests ==
    {SolverRequest(vs, cs, None) :
        vs \in SeqsBetween(VarChoices, 1, MaxVars),
        cs \in {<<>>,
                <<Constraint("no_overlap", None, None, None, None, None,
                             Some(<<"i">>), None, None, None)>>,
                <<SoftLinear(<<Term("x", 1)>>, "<=", 0, 1, Some("a"))>>}}

\* Constraints of every variant, each field absent, empty or set, with at
\* most MaxForeign fields of another variant set.
FieldChoices(f) ==
    CASE f = "terms" -> {None, Some(<<>>), Some(<<Term("x", 1)>>), Some(<<Term("i", 1)>>)}
      [] f = "op" -> {None, Some("<="), Some(">="), Some("==")}
      [] f = "rhs" -> {None, Some(1)}
      [] f = "penalty" -> {None, Some(1)}
      [] f = "vars" -> {None, Some(<<>>), Some(<<"x", "y">>)}
      [] f = "intervals" -> {None, Some(<<>>), Some(<<"i">>)}
      [] f = "if_" -> {None, Some("x")}
      [] f = "then" -> {None, Some("y")}

ConstraintTypes ==
    {"linear", "soft_linear", "exactly_one", "at_most_one", "implication",
     "bool_or", "bool_and", "no_overlap"}

ForeignFields(c) == {f \in VariantFields \ OwnFields(c.type) : ~IsNone(c[f])}

ShapeChoices ==
    {c \in {Constraint(t, ts, o, r, p, vs, ivs, i, th, None) :
                t \in ConstraintTypes, ts \in FieldChoices("terms"),
                o \in FieldChoices("op"), r \in FieldChoices("rhs"),
                p \in FieldChoices("penalty"), vs \in FieldChoices("vars"),
                ivs \in FieldChoices("intervals"), i \in FieldChoices("if_"),
                th \in FieldChoices("then")} :
        Cardinality(ForeignFields(c)) <= MaxForeign}

ShapeRequests ==
    {SolverRequest(vs, <<c>>, None) :
        vs \in {<<BoolVar("x"), BoolVar("y")>>,
                <<BoolVar("x"), IntervalVar("i", Some(0), Some(1), Some(1), None)>>},
        c \in ShapeChoices}

\* Objectives of either sense over terms of x (and of the undeclared y),
\* against soft constraints x <= 0 of negative, zero and positive penalty.
ObjectiveChoices ==
    {None}
    \cup {Some(Objective(s, ts)) :
            s \in Senses,
            ts \in SeqsBetween({Term("x", -1), Term("x", 1), Term("x", 2), Term("y", 1)},
                               0, MaxTerms)}

ObjectiveRequests ==
    {SolverRequest(<<BoolVar("x")>>, cs, obj) :
        cs \in SeqsBetween({SoftLinear(<<Term("x", 1)>>, "<=", 0, p, None) : p \in {-1, 0, 3}},
                           0, MaxConstraints),
        obj \in ObjectiveChoices}

\* Soft constraints over one Boolean, with and without an id, that can and
\* cannot be violated, beside hard constraints that force x = 0 or x = 1.
SoftRequests ==
    {SolverRequest(<<BoolVar("x")>>, cs, None) :
        cs \in SeqsBetween(
                 {Linear(<<Term("x", 1)>>, "==", r) : r \in {0, 1}}
                 \cup {SoftLinear(<<Term("x", 1)>>, o, r, 2, cid) :
                         o \in {"<=", ">="}, r \in {0, 1},
                         cid \in {None, Some(""), Some("a"), Some("b")}},
                 0, MaxConstraints)}

\* One soft constraint over terms of negative, zero and positive
\* coefficient, of an integer of negative lower bound and of a Boolean.
RangeRequests ==
    {SolverRequest(<<IntVar("x", Some(-1), Some(1)), BoolVar("y")>>,
                   <<SoftLinear(ts, o, r, 1, Some("a"))>>, None) :
        ts \in SeqsBetween({Term(v, c) : v \in {"x", "y"}, c \in {-2, 0, 1}}, 1, MaxTerms),
        o \in {"<=", ">="}, r \in {-1, 1}}

\* Soft constraints with an id, of negative, zero and positive penalty,
\* over an integer that an objective of either sense pulls the other way.
ShortfallRequests ==
    {SolverRequest(<<IntVar("x", Some(0), Some(2))>>, cs, obj) :
        cs \in SeqsBetween({SoftLinear(<<Term("x", 1)>>, o, 1, p, Some("a")) :
                               o \in {"<=", ">="}, p \in {-1, 0, 1}},
                           1, MaxConstraints),
        obj \in {None} \cup {Some(Objective(s, <<Term("x", 2)>>)) : s \in Senses}}

Requests ==
    DeclarationRequests \cup ShapeRequests \cup ObjectiveRequests
    \cup SoftRequests \cup RangeRequests \cup ShortfallRequests

(***************************************************************************)
(* One call of solve_request.                                              *)
(***************************************************************************)
VARIABLES
    request,              \* the argument of the call
    pc,                   \* the statement the call has reached
    i,                    \* the position of the loop it is in
    var_bounds,           \* name -> _VariableBounds
    vars_map,             \* name -> handle of the integer variable
    intervals_map,        \* name -> interval
    model_vars,           \* the integer variables of the CP model
    model_cts,            \* the constraints of the CP model
    penalty_terms,
    tracked_constraints,
    soft_log,             \* the locals of each _add_soft_linear_constraint call
    constraint_index,
    sent,                 \* the sense and expression given to Minimize/Maximize
    has_objective,
    solve_calls,          \* the number of calls of solver.Solve
    raw_status,           \* the status Solve returned
    assignment,           \* the values Solve returned
    solution_info,        \* the solution info Solve returned
    response              \* the SolverResponse returned

vars ==
    <<request, pc, i, var_bounds, vars_map, intervals_map, model_vars, model_cts,
      penalty_terms, tracked_constraints, soft_log, constraint_index, sent,
      has_objective, solve_calls, raw_status, assignment, solution_info, response>>

model_state ==
    <<model_vars, model_cts, penalty_terms, tracked_constraints, soft_log, constraint_index>>

solver_state == <<sent, has_objective, solve_calls, raw_status, assignment, solution_info>>

Init ==
    /\ request \in Requests
    /\ pc = "bounds"
    /\ i = 1
    /\ var_bounds = EmptyMap
    /\ vars_map = EmptyMap
    /\ intervals_map = EmptyMap
    /\ model_vars = <<>>
    /\ model_cts = <<>>
    /\ penalty_terms = <<>>
    /\ tracked_constraints = <<>>
    /\ soft_log = <<>>
    /\ constraint_index = 0
    /\ sent = [sense |-> "none", expr |-> <<>>]
    /\ has_objective = FALSE
    /\ solve_calls = 0
    /\ raw_status = ""
    /\ assignment = <<>>
    /\ solution_info = ""
    /\ response = None

\* except Exception as exc: return SolverResponse(status="ERROR", error=str(exc))
Fail(msg) ==
    /\ response' = ErrorResponse(msg)
    /\ pc' = "done"

\* The statement after the variable loop has read variable k - 1, and after
\* the constraint loop has read constraint k - 1.
AfterVariable(k) ==
    IF k <= Len(request.variables) THEN "variables"
    ELSE IF request.constraints /= <<>> THEN "constraints"
    ELSE "objective"

AfterConstraint(k) == IF k <= Len(request.constraints) THEN "constraints" ELSE "objective"

\* var_bounds = _collect_bounds(request.variables)
CollectBounds ==
    /\ pc = "bounds"
    /\ LET r == _collect_bounds(request.variables) IN
       IF ~IsNone(r.err)
       THEN Fail(Val(r.err)) /\ UNCHANGED <<var_bounds, i>>
       ELSE /\ var_bounds' = r.bounds
            /\ pc' = AfterVariable(1)
            /\ i' = 1
            /\ UNCHANGED response
    /\ UNCHANGED <<request, vars_map, intervals_map, model_state, solver_state>>

\* for var in request.variables: one iteration
MaterializeVariable ==
    /\ pc = "variables"
    /\ LET r == CreateVariable(request.variables[i],
                               [model_vars |-> model_vars, vars_map |-> vars_map,
                                intervals_map |-> intervals_map])
       IN
       IF ~IsNone(r.err)
       THEN Fail(Val(r.err)) /\ UNCHANGED <<model_vars, vars_map, intervals_map, i>>
       ELSE /\ model_vars' = r.ms.model_vars
            /\ vars_map' = r.ms.vars_map
            /\ intervals_map' = r.ms.intervals_map
            /\ pc' = AfterVariable(i + 1)
            /\ i' = IF i < Len(request.variables) THEN i + 1 ELSE 1
            /\ UNCHANGED response
    /\ UNCHANGED <<request, var_bounds, model_cts, penalty_terms, tracked_constraints,
                   soft_log, constraint_index, solver_state>>

\* for constraint in request.constraints: one iteration
AddConstraint ==
    /\ pc = "constraints"
    /\ LET constraint == request.constraints[i]
           r == Dispatch(Compile(model_vars, model_cts, penalty_terms,
                                 tracked_constraints, soft_log),
                         constraint, vars_map, intervals_map, var_bounds,
                         constraint_index, i)
       IN
       IF ~IsNone(r.err)
       THEN Fail(Val(r.err)) /\ UNCHANGED <<model_state, i>>
       ELSE /\ model_vars' = r.cs.model_vars
            /\ model_cts' = r.cs.model_cts
            /\ penalty_terms' = r.cs.penalty_terms
            /\ tracked_constraints' = r.cs.tracked_constraints
            /\ soft_log' = r.cs.soft_log
            /\ constraint_index' =
                   IF constraint.type = "soft_linear" THEN constraint_index + 1
                   ELSE constraint_index
            /\ pc' = AfterConstraint(i + 1)
            /\ i' = IF i < Len(request.constraints) THEN i + 1 ELSE 1
            /\ UNCHANGED response
    /\ UNCHANGED <<request, var_bounds, vars_map, intervals_map, solver_state>>

\* has_objective = _build_objective(model, request.objective, vars_map, penalty_terms)
BuildObjective ==
    /\ pc = "objective"
    /\ LET r == _build_objective(request.objective, vars_map, penalty_terms) IN
       IF ~IsNone(r.err)
       THEN Fail(Val(r.err)) /\ UNCHANGED <<sent, has_objective>>
       ELSE /\ sent' = [sense |-> r.sense, expr |-> r.expr]
            /\ has_objective' = r.has_objective
            /\ pc' = "solve"
            /\ UNCHANGED response
    /\ UNCHANGED <<request, i, var_bounds, vars_map, intervals_map, model_state,
                   solve_calls, raw_status, assignment, solution_info>>

\* status = solver.Solve(model), and the response built from what it returns.
\* The solution info is read only when the status is not a success.  The
\* options of the request (time limit, stop after the first solution) only
\* select among the answers the solver may give, all of which are taken.
Solve ==
    /\ pc = "solve"
    /\ \E answer \in Answers(model_vars, model_cts, sent), info \in SolutionInfos :
          /\ IsSuccess(answer[1]) => info = ""
          /\ solve_calls' = solve_calls + 1
          /\ raw_status' = answer[1]
          /\ assignment' = answer[2]
          /\ solution_info' = info
          /\ response' =
                 IF ~IsSuccess(answer[1]) THEN FailureResponse(answer[1], info)
                 ELSE SuccessResponse(answer[1], answer[2], vars_map,
                                      tracked_constraints, has_objective)
    /\ pc' = "done"
    /\ UNCHANGED <<request, i, var_bounds, vars_map, intervals_map, model_state,
                   sent, has_objective>>

Next == CollectBounds \/ MaterializeVariable \/ AddConstraint \/ BuildObjective \/ Solve

Spec == Init /\ [][Next]_vars

(***************************************************************************)
(* Properties.                                                             *)
(***************************************************************************)
Done == pc = "done"

\* The call ended in the except clause, before any call of the solver.
Rejected == Done /\ response.status = "ERROR" /\ solve_calls = 0

\* The request is never sent to the solver, and is answered with ERROR.
NeverSolved == solve_calls = 0 /\ (Done => Rejected)

Variables == request.variables

Constraints == request.constraints

IsInt(var) == var.type = "int"

IsScalar(var) == var.type \in {"bool", "int"}

\* C1: every Integer variable entered in the bounds map has lower <= upper,
\* and a request that declares an Integer variable with min > max is
\* answered with ERROR without any call of the solver.
C1_BoundsOrdered ==
    /\ \A n \in DOMAIN var_bounds : var_bounds[n].lower <= var_bounds[n].upper
    /\ (\E k \in 1..Len(Variables) :
            /\ IsInt(Variables[k])
            /\ ~IsNone(Variables[k].min) /\ ~IsNone(Variables[k].max)
            /\ Val(Variables[k].min) > Val(Variables[k].max))
       => NeverSolved

\* The declaration the name p resolves to when variable k is created: the
\* last scalar declared before it under that name (0 when there is none).
LastScalar(p, k) ==
    LET before == {j \in 1..(k - 1) : IsScalar(Variables[j]) /\ Variables[j].name = p} IN
    IF before = {} THEN 0 ELSE CHOOSE j \in before : \A m \in before : m <= j

\* C8: a request with an Interval variable whose presence variable names no
\* declared scalar variable, or names an Integer variable, is answered with
\* ERROR without any call of the solver.
C8_PresenceIsBoolean ==
    (\E k \in 1..Len(Variables) :
        /\ Variables[k].type = "interval"
        /\ ~IsNone(Variables[k].presenceVar)
        /\ LET j == LastScalar(Val(Variables[k].presenceVar), k) IN
           j = 0 \/ IsInt(Variables[j]))
    => NeverSolved

\* C9: a request with a constraint that sets a field of another variant is
\* answered with ERROR without any call of the solver.
C9_ForeignFieldRejected ==
    (\E k \in 1..Len(Constraints) : ForeignFields(Constraints[k]) /= {})
    => NeverSolved

\* The sums coeff * value over the terms, each term's variable taking any
\* value within its bounds.
RECURSIVE TermSums(_, _)
TermSums(terms, bounds) ==
    IF terms = <<>> THEN {0}
    ELSE {terms[1].coeff * v + rest :
            v \in bounds[terms[1].var].lower .. bounds[terms[1].var].upper,
            rest \in TermSums(Tail(terms), bounds)}

IsMinimum(m, S) == m \in S /\ \A v \in S : m <= v

IsMaximum(m, S) == m \in S /\ \A v \in S : m >= v

\* C10: the range _expression_range returns for the terms of a soft
\* constraint is the true minimum and maximum of the sum of the terms over
\* the values within the bounds.
C10_RangeExact ==
    \A k \in 1..Len(soft_log) :
        LET sums == TermSums(Val(Constraints[soft_log[k].cidx].terms), var_bounds) IN
        /\ IsMinimum(soft_log[k].min_expr, sums)
        /\ IsMaximum(soft_log[k].max_expr, sums)

\* The same, wherever every bound of the map has lower <= upper.
RangeExactWithinOrderedBounds ==
    (\A n \in DOMAIN var_bounds : var_bounds[n].lower <= var_bounds[n].upper)
    => C10_RangeExact

\* The solver returned an assignment.
Solved == Done /\ solve_calls = 1 /\ IsSuccess(raw_status)

Records == IF IsNone(response.softViolations) THEN <<>> ELSE Val(response.softViolations)

\* The entry of soft_log written for the constraint at position cidx.
LogOf(cidx) == soft_log[CHOOSE k \in 1..Len(soft_log) : soft_log[k].cidx = cidx]

\* The value the solver returned for the violation variable of the
\* constraint at position cidx.
SlackValue(cidx) == assignment[LogOf(cidx).violation]

\* sum of coeff * returned value over the terms
RECURSIVE ReturnedSum(_)
ReturnedSum(terms) ==
    IF terms = <<>> THEN 0
    ELSE terms[1].coeff * Val(response.values)[terms[1].var] + ReturnedSum(Tail(terms))

IsSoft(c) == c.type = "soft_linear"

\* The records the claim asks for, from constraint k on: one for each soft
\* constraint with an id and a positive slack value, under that id.
RECURSIVE ExpectedRecords(_)
ExpectedRecords(k) ==
    IF k > Len(Constraints) THEN <<>>
    ELSE LET c == Constraints[k] IN
         IF IsSoft(c) /\ ~IsNone(c.id) /\ SlackValue(k) > 0
         THEN <<SoftConstraintViolation(Val(c.id), SlackValue(k), Val(c.rhs),
                                        ReturnedSum(Val(c.terms)))>>
              \o ExpectedRecords(k + 1)
         ELSE ExpectedRecords(k + 1)

\* C5: after a successful solve the violation list holds, in declaration
\* order, one record (id, slack value, rhs, recomputed left-hand side) for
\* exactly the soft constraints that carry an id and whose slack value is
\* positive, and the field is absent when there is no such record.
C5_ViolationRecords ==
    Solved =>
        response.softViolations =
            (IF ExpectedRecords(1) = <<>> THEN None ELSE Some(ExpectedRecords(1)))

\* The same but for the id of each record.
RECURSIVE WithoutIds(_)
WithoutIds(records) ==
    IF records = <<>> THEN <<>>
    ELSE <<[records[1] EXCEPT !.constraintId = ""]>> \o WithoutIds(Tail(records))

ViolationRecordsButForIds ==
    Solved => WithoutIds(Records) = WithoutIds(ExpectedRecords(1))

\* The soft constraints a record is due for: those with an id whose slack
\* value is positive, as their soft_log entries, in declaration order.
IsReportedEntry(e) == ~IsNone(Constraints[e.cidx].id) /\ assignment[e.violation] > 0

ReportedLog == IF Solved THEN SelectSeq(soft_log, IsReportedEntry) ELSE <<>>

\* Record j is the record of the constraint of ReportedLog[j].
RecordsFollowLog ==
    /\ Len(Records) = Len(ReportedLog)
    /\ \A j \in 1..Len(Records) :
          /\ Records[j].violationAmount = assignment[ReportedLog[j].violation]
          /\ Records[j].targetValue = Val(Constraints[ReportedLog[j].cidx].rhs)

\* C2: the violation variable of a soft constraint ranges over
\* 0..maxViolation, with maxViolation = max(0, maxExpr - rhs) for <= and
\* max(0, rhs - minExpr) for >=, and the violationAmount of a record of
\* the constraint is at most maxViolation.
C2_ViolationBounded ==
    /\ \A k \in 1..Len(soft_log) :
          LET e == soft_log[k]
              c == Constraints[e.cidx]
              range == _expression_range(Val(c.terms), var_bounds)
              expected == IF Val(c.op) = "<=" THEN Max2(0, range.max - Val(c.rhs))
                          ELSE Max2(0, Val(c.rhs) - range.min)
          IN
          /\ e.max_violation = expected
          /\ model_vars[e.violation].lb = 0
          /\ model_vars[e.violation].ub = expected
    /\ Done =>
          /\ RecordsFollowLog
          /\ \A j \in 1..Len(Records) :
                Records[j].violationAmount <= ReportedLog[j].max_violation

\* A record whose violationAmount is the maxViolation of its constraint,
\* where that is 2 or more.
C2_Witness ==
    /\ Solved
    /\ \E j \in 1..Len(Records) :
          /\ j <= Len(ReportedLog)
          /\ Records[j].violationAmount = ReportedLog[j].max_violation
          /\ Records[j].violationAmount >= 2

\* C6: a soft constraint whose maxViolation is 0 has no penalty term, in
\* penalty_terms or in the objective sent, and no record in any response.
C6_ZeroMaxViolation ==
    /\ \A k \in 1..Len(soft_log) :
          soft_log[k].max_violation = 0 =>
              /\ \A j \in 1..Len(penalty_terms) : penalty_terms[j].h /= soft_log[k].violation
              /\ \A j \in 1..Len(sent.expr) : sent.expr[j].h /= soft_log[k].violation
              /\ \A j \in 1..Len(ReportedLog) : ReportedLog[j].cidx /= soft_log[k].cidx
    /\ Done => RecordsFollowLog

\* A successful response with a record, to a request with another soft
\* constraint that has an id and a maxViolation of 0.
C6_Witness ==
    /\ Solved
    /\ Records /= <<>>
    /\ \E k \in 1..Len(soft_log) :
          soft_log[k].max_violation = 0 /\ ~IsNone(Constraints[soft_log[k].cidx].id)

ScalarNames == {Variables[k].name : k \in {j \in 1..Len(Variables) : IsScalar(Variables[j])}}

IntervalNames ==
    {Variables[k].name : k \in {j \in 1..Len(Variables) : Variables[j].type = "interval"}}

\* C7: the status of the response is the image of the raw status under the
\* table; the response has a value for each scalar variable and statistics
\* if and only if the raw status is optimal or feasible, and otherwise has
\* the status and the solution info of the solver only.
C7_StatusTable ==
    (Done /\ solve_calls = 1) =>
        /\ response.status =
              (CASE raw_status = "optimal" -> "OPTIMAL"
                 [] raw_status = "feasible" -> "FEASIBLE"
                 [] raw_status = "infeasible" -> "INFEASIBLE"
                 [] raw_status = "model_invalid" -> "ERROR"
                 [] raw_status = "unknown" -> "TIMEOUT"
                 [] OTHER -> "ERROR")
        /\ raw_status \in {"optimal", "feasible"} <=> ~IsNone(response.values)
        /\ raw_status \in {"optimal", "feasible"} <=> ~IsNone(response.statistics)
        /\ ~IsNone(response.values) =>
              /\ DOMAIN Val(response.values) = ScalarNames
              /\ \A n \in ScalarNames : Val(response.values)[n] \in Int
        /\ IsNone(response.values) =>
              /\ IsNone(response.error)
              /\ IsNone(response.softViolations)
              /\ response.solutionInfo =
                     (IF solution_info = "" THEN None ELSE Some(solution_info))

\* An INFEASIBLE response that carries the solution info and no values.
C7_Witness ==
    /\ Done
    /\ raw_status = "infeasible"
    /\ response.status = "INFEASIBLE"
    /\ response.solutionInfo = Some("infeasible")
    /\ IsNone(response.values)

(***************************************************************************)
(* The configuration errors of a request, read off the request alone.      *)
(***************************************************************************)
MissingBound ==
    \E k \in 1..Len(Variables) :
        IsInt(Variables[k]) /\ (IsNone(Variables[k].min) \/ IsNone(Variables[k].max))

InconsistentInterval ==
    \E k \in 1..Len(Variables) :
        LET var == Variables[k] IN
        /\ var.type = "interval"
        /\ ~IsNone(var.start) /\ ~IsNone(var.end) /\ ~IsNone(var.size)
        /\ Val(var.end) - Val(var.start) /= Val(var.size)

IsLinear(c) == c.type \in {"linear", "soft_linear"}

TakesVars(c) == c.type \in {"exactly_one", "at_most_one", "bool_or", "bool_and"}

\* A required field of the variant is absent, or its list is empty.
MissingField(c) ==
    CASE c.type = "linear" ->
           IsNone(c.terms) \/ Val(c.terms) = <<>> \/ IsNone(c.op) \/ IsNone(c.rhs)
      [] c.type = "soft_linear" ->
           \/ IsNone(c.terms) \/ Val(c.terms) = <<>> \/ IsNone(c.op)
           \/ IsNone(c.rhs) \/ IsNone(c.penalty)
      [] c.type = "implication" -> IsNone(c.if_) \/ IsNone(c.then)
      [] c.type = "no_overlap" -> IsNone(c.intervals) \/ Val(c.intervals) = <<>>
      [] OTHER -> IsNone(c.vars) \/ Val(c.vars) = <<>>

\* A field of the variant names a variable that is not declared: a term,
\* a literal or an implication side that is no scalar variable (an interval
\* name among them), a no_overlap entry that is no interval.
UndeclaredIn(c) ==
    CASE IsLinear(c) ->
           /\ ~IsNone(c.terms)
           /\ \E k \in 1..Len(Val(c.terms)) : Val(c.terms)[k].var \notin ScalarNames
      [] TakesVars(c) ->
           /\ ~IsNone(c.vars)
           /\ \E k \in 1..Len(Val(c.vars)) : Val(c.vars)[k] \notin ScalarNames
      [] c.type = "implication" ->
           \/ ~IsNone(c.if_) /\ Val(c.if_) \notin ScalarNames
           \/ ~IsNone(c.then) /\ Val(c.then) \notin ScalarNames
      [] OTHER ->
           /\ ~IsNone(c.intervals)
           /\ \E k \in 1..Len(Val(c.intervals)) : Val(c.intervals)[k] \notin IntervalNames

SoftEquality(c) == IsSoft(c) /\ c.op = Some("==")

UndeclaredInObjective ==
    /\ ~IsNone(request.objective)
    /\ \E k \in 1..Len(Val(request.objective).terms) :
          Val(request.objective).terms[k].var \notin ScalarNames

ConfigurationError ==
    \/ MissingBound
    \/ InconsistentInterval
    \/ UndeclaredInObjective
    \/ \E k \in 1..Len(Constraints) :
          \/ MissingField(Constraints[k])
          \/ UndeclaredIn(Constraints[k])
          \/ SoftEquality(Constraints[k])

\* C4: a request with a configuration error is answered with ERROR, a
\* non-empty error message and no values, statistics or violations, and
\* the solver is never called for it; the solver is called exactly once
\* when compilation succeeds, and never otherwise.
C4_ErrorsStopBeforeSolve ==
    /\ ConfigurationError => NeverSolved
    /\ solve_calls <= 1
    /\ ~Done => solve_calls = 0
    /\ Done =>
          /\ solve_calls = 1 <=> IsNone(response.error)
          /\ ~IsNone(response.error) =>
                /\ response.status = "ERROR"
                /\ Val(response.error) /= ""
                /\ IsNone(response.values)
                /\ IsNone(response.statistics)
                /\ IsNone(response.softViolations)

\* A soft constraint with every field set and every variable declared is
\* rejected for its comparator ==.
C4_Witness ==
    /\ Rejected
    /\ ~MissingBound /\ ~InconsistentInterval /\ ~UndeclaredInObjective
    /\ \A k \in 1..Len(Constraints) :
          ~MissingField(Constraints[k]) /\ ~UndeclaredIn(Constraints[k])
    /\ \E k \in 1..Len(Constraints) : SoftEquality(Constraints[k])
    /\ response.error = Some("Unsupported soft linear operator ==")

(***************************************************************************)
(* The objective.  Expressions are compared by the coefficient they give   *)
(* each variable of the model.                                             *)
(***************************************************************************)
\* _build_objective has returned.
Built == pc = "solve" \/ (Done /\ solve_calls = 1)

Handles == 1..Len(model_vars)

RECURSIVE Coef(_, _)
Coef(expr, h) ==
    IF expr = <<>> THEN 0
    ELSE (IF expr[1].h = h THEN expr[1].c ELSE 0) + Coef(Tail(expr), h)

UserTerms == IF IsNone(request.objective) THEN <<>> ELSE Val(request.objective).terms

\* The coefficient of h in userExpr.
RECURSIVE UserCoefFrom(_, _)
UserCoefFrom(terms, h) ==
    IF terms = <<>> THEN 0
    ELSE (IF vars_map[terms[1].var] = h THEN terms[1].coeff ELSE 0)
         + UserCoefFrom(Tail(terms), h)

UserCoef(h) == UserCoefFrom(UserTerms, h)

\* The penalty weight of the soft constraint of a soft_log entry.
PenaltyOf(e) == Val(Constraints[e.cidx].penalty)

\* The coefficient of h in penaltySum: the penalty weight of the soft
\* constraint whose violation variable h is, if its maxViolation is positive.
RECURSIVE PenaltyCoefFrom(_, _)
PenaltyCoefFrom(log, h) ==
    IF log = <<>> THEN 0
    ELSE (IF log[1].violation = h /\ log[1].max_violation > 0 THEN PenaltyOf(log[1]) ELSE 0)
         + PenaltyCoefFrom(Tail(log), h)

PenaltyCoef(h) == PenaltyCoefFrom(soft_log, h)

HasPenalties == \E k \in 1..Len(soft_log) : soft_log[k].max_violation > 0

\* The sense sent, and the expression userExpr + sign * penaltySum.
SentIs(sense, sign) ==
    /\ sent.sense = sense
    /\ has_objective
    /\ \A h \in Handles : Coef(sent.expr, h) = UserCoef(h) + sign * PenaltyCoef(h)

NothingSent == sent.sense = "none" /\ sent.expr = <<>> /\ ~has_objective

UserSense == Val(request.objective).sense

PenaltySign == IF UserSense = "minimize" THEN 1 ELSE -1

\* A larger value of the violation variable of e does not improve the
\* objective in the direction sent.
NoReward(e) ==
    /\ sent.sense = "minimize" => Coef(sent.expr, e.violation) >= 0
    /\ sent.sense = "maximize" => Coef(sent.expr, e.violation) <= 0

\* The request of test_penalty_offsets_maximize_objective, generalised: one
\* Boolean x, soft constraints x <= 0, and an objective over x.
PenaltyTestShape ==
    /\ Variables = <<BoolVar("x")>>
    /\ Constraints /= <<>>
    /\ \A k \in 1..Len(Constraints) :
          /\ IsSoft(Constraints[k])
          /\ Constraints[k].terms = Some(<<Term("x", 1)>>)
          /\ Constraints[k].op = Some("<=")
          /\ Constraints[k].rhs = Some(0)
    /\ ~IsNone(request.objective)

RECURSIVE SumOfPenalties(_)
SumOfPenalties(k) ==
    IF k > Len(Constraints) THEN 0
    ELSE Val(Constraints[k].penalty) + SumOfPenalties(k + 1)

\* What the objective gains, in its own direction, from x = 1 over x = 0.
Reward ==
    IF UserSense = "maximize" THEN UserCoef(vars_map["x"]) ELSE -UserCoef(vars_map["x"])

\* The optimal assignment is the non-violating one where the penalty
\* weight exceeds the reward.
PenaltyWins ==
    (Solved /\ raw_status = "optimal" /\ PenaltyTestShape /\ SumOfPenalties(1) > Reward)
    => Val(response.values)["x"] = 0

\* C3 as claimed: the four cases of the assembly by whether the request
\* has an objective and whether there are penalties, no penalty term that
\* rewards violation, and the non-violating optimum.
C3_FourCases ==
    /\ Built =>
          /\ CASE ~IsNone(request.objective) /\ HasPenalties ->
                    SentIs(UserSense, PenaltySign)
               [] ~IsNone(request.objective) /\ ~HasPenalties -> SentIs(UserSense, 0)
               [] IsNone(request.objective) /\ HasPenalties -> SentIs("minimize", 1)
               [] OTHER -> NothingSent
          /\ \A k \in 1..Len(soft_log) : NoReward(soft_log[k])
    /\ PenaltyWins

\* C3, amended: an objective without terms and without penalties sends
\* nothing, and a penalty term does not reward violation where the penalty
\* weight is not negative.
C3_ObjectiveAssembly ==
    /\ Built =>
          /\ CASE ~IsNone(request.objective) /\ HasPenalties ->
                    SentIs(UserSense, PenaltySign)
               [] ~IsNone(request.objective) /\ UserTerms /= <<>> /\ ~HasPenalties ->
                    SentIs(UserSense, 0)
               [] IsNone(request.objective) /\ HasPenalties -> SentIs("minimize", 1)
               [] OTHER -> NothingSent
          /\ \A k \in 1..Len(soft_log) :
                PenaltyOf(soft_log[k]) >= 0 => NoReward(soft_log[k])
    /\ PenaltyWins

\* The request of the test: maximize 2x against a penalty of 3 on x <= 0,
\* answered as optimal with x = 0.
C3_Witness ==
    /\ Solved
    /\ raw_status = "optimal"
    /\ PenaltyTestShape
    /\ request.objective = Some(Objective("maximize", <<Term("x", 2)>>))
    /\ Len(Constraints) = 1
    /\ Constraints[1].penalty = Some(3)
    /\ Coef(sent.expr, 2) = -3
    /\ Val(response.values)["x"] = 0

(***************************************************************************)
(* Soft constraints and the feasible assignments of the declared           *)
(* variables.                                                              *)
(***************************************************************************)
ViolationHandles == {soft_log[k].violation : k \in 1..Len(soft_log)}

DeclaredHandles == (1..Len(model_vars)) \ ViolationHandles

Mentions(ct, handles) ==
    ct.kind = "lin" /\ \E j \in 1..Len(ct.expr) : ct.expr[j].h \in handles

\* The constraints of the model that are not relaxed soft constraints.
IsHardCt(ct) == ~Mentions(ct, ViolationHandles)

HardCts == SelectSeq(model_cts, IsHardCt)

\* The relaxed constraint added with the soft_log entry e.
RelaxedOf(e) ==
    CHOOSE ct \in {model_cts[j] : j \in 1..Len(model_cts)} : Mentions(ct, {e.violation})

\* The assignment a with the value v at handle h.
With(a, h, v) == [a EXCEPT ![h] = v]

\* expr <= rhs + v, or expr + v >= rhs, for the terms of a soft constraint
\* under the assignment a.
RelaxedHolds(c, a, v) ==
    LET expr == ActualValue(Val(c.terms), a, vars_map) IN
    IF Val(c.op) = "<=" THEN expr <= Val(c.rhs) + v ELSE expr + v >= Val(c.rhs)

\* The least slack value that satisfies the relaxed constraint under a.
Shortfall(c, a) ==
    LET expr == ActualValue(Val(c.terms), a, vars_map) IN
    IF Val(c.op) = "<=" THEN Max2(0, expr - Val(c.rhs)) ELSE Max2(0, Val(c.rhs) - expr)

\* Every assignment of the model's variables within their domains.
AllAssignments == Assignments(model_vars, Len(model_vars))

HardFeasible == Feasible(model_vars, HardCts)

AgreeOnDeclared(a, b) == \A h \in DeclaredHandles : a[h] = b[h]

\* C11: for every assignment of the declared variables within their bounds
\* and every soft constraint added so far there is a slack value in
\* 0..maxViolation that satisfies the relaxed constraint, and every
\* assignment of the declared variables that satisfies the hard
\* constraints extends to one that satisfies the whole model.  The model
\* is looked at after each constraint is added; it does not change later.
C11_SoftKeepsFeasible ==
    pc \in {"constraints", "objective"} =>
        /\ \A k \in 1..Len(soft_log), a \in AllAssignments :
              \E v \in 0..soft_log[k].max_violation :
                  /\ RelaxedHolds(Constraints[soft_log[k].cidx], a, v)
                  /\ Sat(RelaxedOf(soft_log[k]), With(a, soft_log[k].violation, v))
        /\ \A a \in HardFeasible :
              \E b \in Feasible(model_vars, model_cts) : AgreeOnDeclared(a, b)

\* A model with a hard constraint and a soft constraint that an assignment
\* satisfying the hard constraints falls short of.
C11_Witness ==
    /\ pc = "objective"
    /\ HardCts /= <<>>
    /\ \E k \in 1..Len(soft_log), a \in HardFeasible :
          Shortfall(Constraints[soft_log[k].cidx], a) > 0

(***************************************************************************)
(* The violation amount of a record against the returned assignment.       *)
(***************************************************************************)
\* The soft constraint record j was written for.
ConstraintOf(j) == Constraints[ReportedLog[j].cidx]

\* targetValue - actualValue for >=, actualValue - targetValue for <=.
Gap(comparator, record) ==
    IF comparator = ">=" THEN record.targetValue - record.actualValue
    ELSE record.actualValue - record.targetValue

\* C12: the actualValue of a violation record is the left-hand side under
\* the returned values and its targetValue the right-hand side; in every
\* success response the violationAmount is at least the shortfall
\* (targetValue - actualValue for >=, actualValue - targetValue for <=),
\* and in a response of status OPTIMAL it equals the shortfall when the
\* penalty of the constraint is positive.
C12_TrueShortfall ==
    Solved =>
        /\ Len(Records) = Len(ReportedLog)
        /\ \A j \in 1..Len(Records) :
              LET c == ConstraintOf(j)
                  gap == Gap(Val(c.op), Records[j])
              IN
              /\ Records[j].actualValue = ReturnedSum(Val(c.terms))
              /\ Records[j].targetValue = Val(c.rhs)
              /\ Records[j].violationAmount >= gap
              /\ (response.status = "OPTIMAL" /\ Val(c.penalty) > 0)
                    => Records[j].violationAmount = gap

\* An optimal answer that violates a soft constraint of positive penalty
\* for the sake of the objective of the request.
C12_Witness ==
    /\ Solved
    /\ response.status = "OPTIMAL"
    /\ ~IsNone(request.objective)
    /\ \E j \in 1..Len(Records) :
          /\ Val(ConstraintOf(j).penalty) > 0
          /\ Records[j].violationAmount > 0

====
